---- MODULE Spec2Model ----
(***************************************************************************)
(* The bump-pointer "immortal space" allocator of mmtk-core's C examples:  *)
(*   examples/reference_bump_allocator.c  (offset-aware, mmap-backed)      *)
(*   bench/bump_allocator.c               (align_up only, malloc-backed)   *)
(* Addresses and size_t values are machine words of WordBits bits; every   *)
(* size_t operation is taken modulo 2^WordBits, ssize_t values are the     *)
(* two's-complement reading of the same word.                              *)
(***************************************************************************)
EXTENDS Integers, FiniteSets, Sequences, TLC

(* ------------------------------ bounds --------------------------------- *)
\* width of size_t / ssize_t / void* in the model (64 in the build)
WordBits == 22
\* number of API calls made by the client program in one run
MaxCalls == 4
\* number of concurrent callers of alloc
NThreads == 2

(* ------------------------- machine arithmetic -------------------------- *)
Word == 2 ^ WordBits
Addr == 0 .. (Word - 1)
SSIZE_MAX == (Word \div 2) - 1
SSIZE_MIN == 0 - (Word \div 2)
\* (size_t) i : reduction modulo 2^WordBits
ToWord(i) == i % Word
\* (ssize_t) w : two's-complement reading of a word
ToSigned(w) == IF w >= Word \div 2 THEN w - Word ELSE w

\* ~a on words
BitNot(a) == (Word - 1) - a
\* bit-by-bit conjunction, least significant bit first
RECURSIVE BitAndN(_, _)
BitAndN(a, b) ==
    IF a = 0 \/ b = 0 THEN 0
    ELSE ((a % 2) * (b % 2)) + 2 * BitAndN(a \div 2, b \div 2)
\* a & b on words (through a & b = a - (a & ~b) when ~b is the shorter operand)
BitAnd(a, b) ==
    IF b <= BitNot(b) THEN BitAndN(a, b) ELSE a - BitAndN(a, BitNot(b))

NULL == 0
\* mmap's failure value, (void* ) -1
MAP_FAILED == Word - 1
SPACE_ALIGN == 2 ^ 19

(* --------------------------- pure functions ---------------------------- *)
\* size_t align_up(size_t addr, size_t align)
align_up(addr, align) ==
    BitAnd(ToWord(addr + align - 1), BitNot(ToWord(align - 1)))

\* the intermediate values of align_allocation, before any narrowing
AA_neg_off(offset) == ToSigned(ToWord(0 - offset))
AA_diff(region, offset) == AA_neg_off(offset) - ToSigned(region)
AA_delta(region, align, offset) ==
    ToSigned(BitAnd(ToWord(AA_diff(region, offset)), ToWord(align - 1)))
AA_sum(region, align, offset) == ToSigned(region) + AA_delta(region, align, offset)
\* signed overflow (undefined behaviour) in "neg_off - region_signed" or in
\* "(ssize_t)region + delta"
SignedOverflow(region, align, offset) ==
    LET diff == AA_diff(region, offset)
        sum == AA_sum(region, align, offset)
    IN \/ diff > SSIZE_MAX
       \/ diff < SSIZE_MIN
       \/ sum > SSIZE_MAX
       \/ sum < SSIZE_MIN
\* a plausible slip: the offset is added instead of negated
align_allocation_plus(region, align, offset) ==
    ToWord(ToSigned(region)
           + ToSigned(BitAnd(ToWord(ToSigned(offset) - ToSigned(region)),
                             ToWord(align - 1))))
\* void* align_allocation(void* region, size_t align, size_t offset),
\* the value a wrapping (two's-complement) build returns
align_allocation(region, align, offset) ==
    ToWord(AA_sum(region, align, offset))

(* ------------------------------- state --------------------------------- *)
VARIABLES
    variant,      \* which translation unit is linked: "reference" or "bench"
    pc,           \* "running", "exited" (exit(1)), "trapped" (overflow trap)
    heap_start,   \* IMMORTAL_SPACE.heap_start
    heap_end,     \* IMMORTAL_SPACE.heap_end
    heap_cursor,  \* IMMORTAL_SPACE.heap_cursor
    alloced,      \* value returned by the last mmap / malloc of gc_init
    reserved,     \* length passed to that mmap / malloc
    gen,          \* number of gc_init calls that have returned
    ncalls,       \* number of API calls made so far
    last,         \* the last API call: arguments, state before, outcome
    allocs,       \* successful allocations handed out: [p, size, gen, id]
    mut,          \* concurrent callers of alloc: lock, and per caller the
                  \* position in alloc and its locals (<<>>: one caller)
    live          \* the reservations granted so far, [base, len]: the source
                  \* never unmaps or frees one

vars == <<variant, pc, heap_start, heap_end, heap_cursor, alloced, reserved,
          gen, ncalls, last, allocs, mut, live>>
region == <<heap_start, heap_end, heap_cursor>>

(* ---------------------- inputs of the client program ------------------- *)
Variants == {"reference", "bench"}
\* request sizes: empty, the benchmark's 8, sizes around the capacities, and
\* a size close to SIZE_MAX
Sizes == {0, 8, 17, Word - 8}
\* power-of-two alignments (the benchmarks use 1)
Aligns == {1, 16}
\* offsets as passed in the size_t parameter (api/main.c passes -4)
Offsets == {0, 4, ToWord(0 - 4)}
\* heap_size arguments of gc_init
Capacities == {16, 20, Word - 1}
\* addresses the operating system may return for a reservation
Bases == {SPACE_ALIGN + 4096, Word \div 2}
\* a block of len bytes at base b lies inside the address space
FitBases(len) == {b \in Bases : b + len <= Word}
\* a block of len bytes at base b shares no byte with a live reservation
Free(b, len) ==
    \A r \in live : b + len <= r.base \/ r.base + r.len <= b

NoCall == [op |-> "none", size |-> 0, align |-> 0, offset |-> 0,
           pre |-> 0, ret |-> 0, ok |-> FALSE]

Init ==
    /\ variant \in Variants
    /\ pc = "running"
    /\ heap_start = 0
    /\ heap_end = 0
    /\ heap_cursor = 0
    /\ alloced = 0
    /\ reserved = 0
    /\ gen = 0
    /\ ncalls = 0
    /\ last = NoCall
    /\ allocs = {}
    /\ mut = <<>>
    /\ live = {}

CanCall == pc = "running" /\ ncalls < MaxCalls

(* ------------------------------ gc_init -------------------------------- *)
\* a plausible slip: the Region is aligned to twice the slack reserved
GcInitCommit_double_align(heap_size, a) ==
    /\ heap_start' = align_up(a, 2 * SPACE_ALIGN)
    /\ heap_end' = ToWord(align_up(a, 2 * SPACE_ALIGN) + heap_size)
    /\ heap_cursor' = align_up(a, 2 * SPACE_ALIGN)

\* the three assignments at the end of gc_init
GcInitCommit(heap_size, a) ==
    /\ heap_start' = align_up(a, SPACE_ALIGN)
    /\ heap_end' = ToWord(align_up(a, SPACE_ALIGN) + heap_size)
    /\ heap_cursor' = align_up(a, SPACE_ALIGN)

\* gc_init once the reservation call has returned a: the "!alloced" test,
\* then either the diagnostic and exit(1) or the three assignments
\* (alloced and reserved keep describing the reservation behind the Region)
GcInitBody(heap_size, len, a) ==
    IF a = NULL
    THEN /\ pc' = "exited"
         /\ UNCHANGED <<region, gen, alloced, reserved, live>>
         /\ last' = [NoCall EXCEPT !.op = "gc_init", !.size = heap_size,
                       !.pre = heap_cursor]
    ELSE /\ GcInitCommit(heap_size, a)
         /\ pc' = "running"
         /\ gen' = gen + 1
         /\ alloced' = a
         /\ reserved' = len
         /\ live' = IF a = MAP_FAILED THEN live
                    ELSE live \cup {[base |-> a, len |-> len]}
         /\ last' = [NoCall EXCEPT !.op = "gc_init", !.size = heap_size,
                       !.pre = heap_cursor, !.ok = TRUE]

\* gc_init of the reference allocator: mmap never returns NULL for a NULL
\* hint, it returns MAP_FAILED on failure (always for a length of 0)
GcInitRef ==
    /\ CanCall
    /\ variant = "reference"
    /\ \E heap_size \in Capacities :
         LET len == ToWord(heap_size + SPACE_ALIGN)
         IN \E a \in {MAP_FAILED} \cup
                    (IF len = 0 THEN {}
                     ELSE {b \in FitBases(len) : Free(b, len)}) :
              GcInitBody(heap_size, len, a)
    /\ ncalls' = ncalls + 1
    /\ UNCHANGED mut
    /\ UNCHANGED <<variant, allocs>>

\* gc_init of the bench allocator: malloc returns NULL on failure
GcInitBench ==
    /\ CanCall
    /\ variant = "bench"
    /\ \E heap_size \in Capacities :
         LET len == ToWord(heap_size + SPACE_ALIGN)
         IN \E a \in {NULL} \cup {b \in FitBases(len) : Free(b, len)} :
              GcInitBody(heap_size, len, a)
    /\ ncalls' = ncalls + 1
    /\ UNCHANGED mut
    /\ UNCHANGED <<variant, allocs>>

(* ------------------------------- alloc --------------------------------- *)
\* lines 48-53 of the reference alloc (29-35 of the bench one): the bounds
\* check and the commit, given the aligned candidate
\* a plausible slip: the cursor is committed before the bounds check
Bump_commit_first(cur, end, result, size) ==
    LET new_cursor == ToWord(result + size)
    IN IF new_cursor > end
       THEN [ok |-> FALSE, ret |-> NULL, cursor |-> new_cursor]
       ELSE [ok |-> TRUE, ret |-> result, cursor |-> new_cursor]
Bump(cur, end, result, size) ==
    LET new_cursor == ToWord(result + size)
    IN IF new_cursor > end
       THEN [ok |-> FALSE, ret |-> NULL, cursor |-> cur]
       ELSE [ok |-> TRUE, ret |-> result, cursor |-> new_cursor]

\* a plausible slip: the reference alloc aligns as the bench one does
alloc_ignoring_offset(cur, end, size, align, offset) ==
    LET result == align_up(cur, align)
    IN Bump(cur, end, result, size)
\* alloc of the reference allocator, as a function of the Region
alloc(cur, end, size, align, offset) ==
    LET result == align_allocation(cur, align, offset)
    IN Bump(cur, end, result, size)

\* alloc of the bench allocator: the offset is not used
bench_alloc(cur, end, size, align, offset) ==
    LET result == align_up(cur, align)
    IN Bump(cur, end, result, size)

Record(op, size, align, offset, r) ==
    /\ last' = [op |-> op, size |-> size, align |-> align, offset |-> offset,
                pre |-> heap_cursor, ret |-> r.ret, ok |-> r.ok]
    /\ allocs' = IF r.ok
                 THEN allocs \cup {[p |-> r.ret, size |-> size, gen |-> gen,
                                     id |-> ncalls + 1]}
                 ELSE allocs
    /\ heap_cursor' = r.cursor
    /\ ncalls' = ncalls + 1
    /\ UNCHANGED mut
    /\ UNCHANGED <<variant, pc, heap_start, heap_end, alloced, reserved, live, gen>>

\* a call that reaches the signed overflow in align_allocation on a build
\* that traps on it
Trap(op, size, align, offset) ==
    /\ SignedOverflow(heap_cursor, align, offset)
    /\ pc' = "trapped"
    /\ last' = [op |-> op, size |-> size, align |-> align, offset |-> offset,
                pre |-> heap_cursor, ret |-> 0, ok |-> FALSE]
    /\ ncalls' = ncalls + 1
    /\ UNCHANGED mut
    /\ UNCHANGED <<variant, region, alloced, reserved, live, gen, allocs>>

AllocRef ==
    /\ CanCall
    /\ variant = "reference"
    /\ \E size \in Sizes, align \in Aligns, offset \in Offsets :
         LET r == alloc(heap_cursor, heap_end, size, align, offset)
         IN Record("alloc", size, align, offset, r)

AllocRefTrap ==
    /\ CanCall
    /\ variant = "reference"
    /\ \E size \in Sizes, align \in Aligns, offset \in Offsets :
         Trap("alloc", size, align, offset)

AllocBench ==
    /\ CanCall
    /\ variant = "bench"
    /\ \E size \in Sizes, align \in Aligns, offset \in Offsets :
         LET r == bench_alloc(heap_cursor, heap_end, size, align, offset)
         IN Record("alloc", size, align, offset, r)

\* a plausible slip: the shim asks for malloc's customary 16-byte alignment
mmtk_malloc_aligned(cur, end, size) == alloc(cur, end, size, 16, 0)
\* void* mmtk_malloc(size_t size) { return alloc(NULL, size, 1, 0, 0); }
mmtk_malloc(cur, end, size) == alloc(cur, end, size, 1, 0)

MmtkMalloc ==
    /\ CanCall
    /\ variant = "reference"
    /\ \E size \in Sizes :
         LET r == mmtk_malloc(heap_cursor, heap_end, size)
         IN Record("mmtk_malloc", size, 1, 0, r)

MmtkMallocTrap ==
    /\ CanCall
    /\ variant = "reference"
    /\ \E size \in Sizes : Trap("mmtk_malloc", size, 1, 0)

\* a plausible slip: freeing hands the bytes from ptr on back to the cursor
mmtk_free_rewind(cur, ptr) == IF ptr # NULL /\ ptr < cur THEN ptr ELSE cur
\* void mmtk_free(void* ptr) { return; } : the cursor it leaves behind
mmtk_free(cur, ptr) == cur

\* ptr is null, a pointer never handed out (the cursor, the word after it) or
\* a pointer handed out before, possibly freed already
MmtkFree ==
    /\ CanCall
    /\ variant = "reference"
    /\ \E ptr \in {NULL, heap_cursor, ToWord(heap_cursor + 8)}
                  \cup {a.p : a \in allocs} :
         /\ last' = [NoCall EXCEPT !.op = "mmtk_free", !.size = ptr,
                       !.pre = heap_cursor, !.ok = TRUE]
         /\ heap_cursor' = mmtk_free(heap_cursor, ptr)
    /\ ncalls' = ncalls + 1
    /\ UNCHANGED mut
    /\ UNCHANGED <<variant, pc, heap_start, heap_end, alloced, reserved, live, gen,
                   allocs>>

\* MMTk_Mutator bind_mutator(void *tls) { return NULL; }
BindMutator ==
    /\ CanCall
    /\ variant = "reference"
    /\ last' = [NoCall EXCEPT !.op = "bind_mutator", !.pre = heap_cursor,
                  !.ret = NULL, !.ok = TRUE]
    /\ ncalls' = ncalls + 1
    /\ UNCHANGED mut
    /\ UNCHANGED <<variant, pc, region, alloced, reserved, live, gen, allocs>>

\* a plausible slip: the slow path falls back to the ordinary alloc
alloc_slow_fallback(cur, end, size, align, offset) ==
    LET r == alloc(cur, end, size, align, offset)
    IN [exits |-> FALSE, ok |-> r.ok, ret |-> r.ret, cursor |-> r.cursor]
\* alloc_slow: perror("Not implemented\n"); exit(1); the return is not reached
alloc_slow(cur, end, size, align, offset) ==
    [exits |-> TRUE, ok |-> FALSE, ret |-> NULL, cursor |-> cur]

AllocSlow ==
    /\ CanCall
    /\ variant = "reference"
    /\ \E size \in Sizes, align \in Aligns, offset \in Offsets :
         LET r == alloc_slow(heap_cursor, heap_end, size, align, offset)
         IN /\ last' = [op |-> "alloc_slow", size |-> size, align |-> align,
                        offset |-> offset, pre |-> heap_cursor, ret |-> r.ret,
                        ok |-> r.ok]
            /\ pc' = IF r.exits THEN "exited" ELSE pc
            /\ heap_cursor' = r.cursor
    /\ ncalls' = ncalls + 1
    /\ UNCHANGED mut
    /\ UNCHANGED <<variant, heap_start, heap_end, alloced, reserved, live, gen,
                   allocs>>

Next ==
    \/ GcInitRef
    \/ GcInitBench
    \/ AllocRef
    \/ AllocRefTrap
    \/ AllocBench
    \/ MmtkMalloc
    \/ MmtkMallocTrap
    \/ MmtkFree
    \/ BindMutator
    \/ AllocSlow

Spec == Init /\ [][Next]_vars

(* -------------- align_allocation applied to sampled inputs -------------- *)
\* cursors around 0, around the sign change of ssize_t, at the top of the
\* address space and inside an ordinary heap
CursorSamples ==
    (0 .. 9) \cup ((Word \div 2 - 9) .. (Word \div 2 + 9))
    \cup ((Word - 17) .. (Word - 1)) \cup ((SPACE_ALIGN + 7) .. (SPACE_ALIGN + 9))
\* every power of two a word can hold
AllAligns == {2 ^ k : k \in 0 .. (WordBits - 1)}
\* offsets around 0 (both signs) and the two extremes of ssize_t
OffsetSamples ==
    (0 .. 9) \cup {ToWord(0 - k) : k \in 1 .. 9} \cup {SSIZE_MAX, Word \div 2}

InitAlign ==
    /\ variant = "reference"
    /\ pc = "running"
    /\ heap_start = 0
    /\ heap_end = 0
    /\ heap_cursor \in CursorSamples
    /\ alloced = 0
    /\ reserved = 0
    /\ gen = 0
    /\ ncalls = 0
    /\ last = NoCall
    /\ allocs = {}
    /\ mut = <<>>
    /\ live = {}

\* one call of align_allocation(heap_cursor, align, offset) that returns
AlignCall ==
    /\ CanCall
    /\ ncalls = 0
    /\ \E align \in AllAligns, offset \in OffsetSamples :
         last' = [op |-> "align_allocation", size |-> 0, align |-> align,
                  offset |-> offset, pre |-> heap_cursor,
                  ret |-> align_allocation(heap_cursor, align, offset),
                  ok |-> TRUE]
    /\ ncalls' = ncalls + 1
    /\ UNCHANGED mut
    /\ UNCHANGED <<variant, pc, region, alloced, reserved, live, gen, allocs>>

\* the same call on a build that traps on signed overflow
AlignTrap ==
    /\ CanCall
    /\ ncalls = 0
    /\ \E align \in AllAligns, offset \in OffsetSamples :
         Trap("align_allocation", 0, align, offset)

NextAlign ==
    \/ AlignCall
    \/ AlignTrap

SpecAlign == InitAlign /\ [][NextAlign]_vars

(* ------------------------ vocabulary of the claims --------------------- *)
\* the smallest integer x >= c with (x + offset) mod align = 0, in unbounded
\* arithmetic (offset read as the signed value the caller passed)
MathCandidate(c, align, offset) == c + ((0 - (c + ToSigned(offset))) % align)
\* the smallest multiple of align that is >= c, in unbounded arithmetic
MathAlignUp(c, align) == c + ((0 - c) % align)
\* the aligned candidate each variant is meant to compute for a request
Candidate(c, align, offset) ==
    IF variant = "reference" THEN MathCandidate(c, align, offset)
    ELSE MathAlignUp(c, align)
\* the last call was an allocation request that returned to its caller
AllocReturned == last.op \in {"alloc", "mmtk_malloc"} /\ pc = "running"
\* gc_init has returned after a reservation that the operating system granted
\* and whose length heap_size + SPACE_ALIGN did not wrap
GoodRegion == gen > 0 /\ alloced # MAP_FAILED /\ reserved >= SPACE_ALIGN
\* the capacity the last gc_init was called with
Capacity == ToWord(heap_end - heap_start)
\* two allocations share a byte (ranges taken modulo the address space)
Overlap(a, b) ==
    /\ a.size > 0
    /\ b.size > 0
    /\ \/ ToWord(b.p - a.p) < a.size
       \/ ToWord(a.p - b.p) < b.size

C2_CursorAfterSuccess ==
    (variant = "reference" /\ AllocReturned) =>
      LET cand == MathCandidate(last.pre, last.align, last.offset)
      IN /\ last.ok =>
              /\ last.ret = align_allocation(last.pre, last.align, last.offset)
              /\ heap_cursor = ToWord(last.ret + last.size)
         /\ (cand + last.size <= heap_end) =>
              /\ last.ok
              /\ last.ret = cand
              /\ heap_cursor = cand + last.size

\* a fitting request with offset -4 and align 16 that needed padding
C2_Witness ==
    /\ variant = "reference"
    /\ gen > 0
    /\ last.op = "alloc"
    /\ last.ok
    /\ last.align = 16
    /\ last.offset = ToWord(0 - 4)
    /\ last.size = 8
    /\ last.ret > last.pre
    /\ heap_cursor = last.ret + 8
    /\ heap_cursor <= heap_end

(* -------------------------------- C3 ----------------------------------- *)
\* C3: after gc_init, an alloc request that would exceed end (aligned candidate
\* plus size beyond heap_end) returns NULL and leaves the cursor unchanged, and
\* the identical request repeated from the resulting state fails again and
\* changes nothing.
C3_FailureIdempotent ==
    (GoodRegion /\ AllocReturned
       /\ Candidate(last.pre, last.align, last.offset) + last.size > heap_end) =>
        /\ ~last.ok
        /\ last.ret = NULL
        /\ heap_cursor = last.pre
        /\ LET again == IF variant = "reference"
                        THEN alloc(heap_cursor, heap_end, last.size,
                                   last.align, last.offset)
                        ELSE bench_alloc(heap_cursor, heap_end, last.size,
                                         last.align, last.offset)
           IN ~again.ok /\ again.ret = NULL /\ again.cursor = heap_cursor

(* -------------------------------- C4 ----------------------------------- *)
\* C4: in every state reached after a successful gc_init,
\* heap_start <= heap_cursor <= heap_end.
C4_CursorWithinRegion ==
    GoodRegion => (heap_start <= heap_cursor /\ heap_cursor <= heap_end)

(* -------------------------------- C5 ----------------------------------- *)
\* C5: after gc_init no alloc, mmtk_malloc, mmtk_free or bind_mutator call
\* leaves the cursor lower than it was before the call.
C5_CursorMonotone ==
    (GoodRegion /\ last.op \in {"alloc", "mmtk_malloc", "mmtk_free",
                                "bind_mutator"}) =>
        heap_cursor >= last.pre

(* -------------------------------- C6 ----------------------------------- *)
\* C6: the byte ranges [p, p + size) of any two distinct successful
\* allocations of a Region are disjoint.
C6_AllocationsDisjoint ==
    GoodRegion =>
        \A a \in allocs, b \in allocs :
            (a.gen = gen /\ b.gen = gen /\ a.id # b.id) => ~Overlap(a, b)

(* -------------------------------- C7 ----------------------------------- *)
\* C7: in every state, a request whose aligned candidate plus size equals
\* heap_end succeeds and leaves heap_cursor = heap_end, and the same request
\* with one more byte fails.
C7_InclusiveEnd ==
    \A align \in Aligns, offset \in Offsets :
        LET cand == Candidate(heap_cursor, align, offset)
            size == heap_end - cand
            exact == IF variant = "reference"
                     THEN alloc(heap_cursor, heap_end, size, align, offset)
                     ELSE bench_alloc(heap_cursor, heap_end, size, align, offset)
            more == IF variant = "reference"
                    THEN alloc(heap_cursor, heap_end, size + 1, align, offset)
                    ELSE bench_alloc(heap_cursor, heap_end, size + 1, align,
                                     offset)
        IN (gen > 0 /\ size >= 0 /\ size + 1 < Word) =>
              /\ exact.ok
              /\ exact.cursor = heap_end
              /\ ~more.ok

(* -------------------------------- C8 ----------------------------------- *)
\* C8: on a freshly bootstrapped Region of capacity N, an alloc request with
\* align = 1, offset = 0 and any size > N fails and leaves the cursor at
\* heap_start.
C8_OversizedFails ==
    (GoodRegion /\ AllocReturned /\ last.op = "alloc"
       /\ last.align = 1 /\ last.offset = 0
       /\ last.pre = heap_start /\ last.size > Capacity) =>
        /\ ~last.ok
        /\ last.ret = NULL
        /\ heap_cursor = heap_start

(* -------------------------------- C9 ----------------------------------- *)
\* the outcome of the k-th of k back-to-back calls alloc(s, 1, 0) from cursor cur
RECURSIVE KthCall(_, _, _)
KthCall(k, cur, s) ==
    LET r == IF variant = "reference" THEN alloc(cur, heap_end, s, 1, 0)
             ELSE bench_alloc(cur, heap_end, s, 1, 0)
    IN IF k = 1 THEN r ELSE KthCall(k - 1, r.cursor, s)

\* C9: from a freshly bootstrapped Region of capacity N, the k-th of
\* back-to-back calls alloc(s, 1, 0) with s > 0 succeeds iff k * s <= N, and
\* then returns heap_start + (k - 1) * s.
C9_BackToBack ==
    (GoodRegion /\ last.op = "gc_init" /\ last.ok) =>
        \A s \in Sizes \ {0}, k \in 1 .. MaxCalls :
            LET r == KthCall(k, heap_cursor, s)
            IN /\ r.ok <=> (k * s <= Capacity)
               /\ r.ok => r.ret = heap_start + (k - 1) * s

(* -------------------------------- C10 ---------------------------------- *)
\* C10: after gc_init(capacity) has returned with a reservation at base b,
\* heap_start is the smallest multiple of 2^19 that is >= b,
\* heap_end = heap_start + capacity, heap_cursor = heap_start and
\* heap_start <= heap_end.
C10_BootstrapRegion ==
    (last.op = "gc_init" /\ last.ok /\ alloced # MAP_FAILED) =>
        /\ heap_start = MathAlignUp(alloced, SPACE_ALIGN)
        /\ heap_end = heap_start + last.size
        /\ heap_cursor = heap_start
        /\ heap_start <= heap_end

(* -------------------------------- C11 ---------------------------------- *)
\* C11: a gc_init whose reservation failed (malloc returned NULL, mmap returned
\* MAP_FAILED) terminates the process; gc_init never returns with a Region
\* established on a failed reservation.
C11_ReservationFailureFatal ==
    /\ (last.op = "gc_init" /\ ~last.ok) => pc = "exited"
    /\ gen > 0 => alloced \notin {NULL, MAP_FAILED}

(* -------------------------------- C12 ---------------------------------- *)
\* C12: every mmtk_free call, whatever its pointer (null, never handed out,
\* handed out before, freed before), leaves heap_start, heap_end and
\* heap_cursor (and the process) as they were; freeing returns no capacity, so
\* the calls after it see the Region they would have seen without it.
C12_FreeIsNoOp ==
    [][(ncalls' # ncalls /\ last'.op = "mmtk_free") =>
          /\ heap_start' = heap_start
          /\ heap_end' = heap_end
          /\ heap_cursor' = heap_cursor
          /\ allocs' = allocs
          /\ pc' = pc]_vars

\* a pointer obtained from a successful, non-empty allocation has been freed
\* and the cursor still stands behind that allocation
C12_Witness ==
    /\ last.op = "mmtk_free"
    /\ gen > 0
    /\ \E a \in allocs : a.p = last.size /\ a.size > 0 /\ a.gen = gen
    /\ heap_cursor = last.pre
    /\ heap_cursor > heap_start

(* -------------------------------- C13 ---------------------------------- *)
\* C13: in every state mmtk_malloc(size) has the result and the effect of
\* alloc(size, align = 1, offset = 0): on success it returns the cursor itself
\* (no padding) and the cursor advances by size, on exhaustion it returns NULL
\* and the cursor stays.
C13_MallocIsAllocAlign1 ==
    (last.op = "mmtk_malloc" /\ pc = "running") =>
        LET r == alloc(last.pre, heap_end, last.size, 1, 0)
        IN /\ last.ok = r.ok
           /\ last.ret = r.ret
           /\ heap_cursor = r.cursor
           /\ last.ok => /\ last.ret = last.pre
                         /\ heap_cursor = ToWord(last.pre + last.size)
           /\ ~last.ok => /\ last.ret = NULL
                          /\ heap_cursor = last.pre
           /\ (last.pre + last.size <= heap_end) =>
                 /\ last.ok
                 /\ heap_cursor = last.pre + last.size

\* mmtk_malloc(8) succeeded from a cursor that is not 16-aligned and returned
\* that very cursor
C13_Witness ==
    /\ last.op = "mmtk_malloc"
    /\ last.ok
    /\ gen > 0
    /\ last.size = 8
    /\ last.pre % 16 # 0
    /\ last.ret = last.pre
    /\ heap_cursor = last.pre + 8

(* -------------------------------- C14 ---------------------------------- *)
\* C14: alloc_slow, for every argument combination and in every Region state,
\* terminates the process: it returns neither a pointer nor NULL to its caller
\* and leaves the Region as it was.
C14_SlowPathFatal ==
    [][(ncalls' # ncalls /\ last'.op = "alloc_slow") =>
          /\ pc' = "exited"
          /\ ~last'.ok
          /\ heap_start' = heap_start
          /\ heap_end' = heap_end
          /\ heap_cursor' = heap_cursor
          /\ allocs' = allocs]_vars

\* alloc_slow was called with a request the ordinary alloc would have granted
C14_Witness ==
    /\ last.op = "alloc_slow"
    /\ pc = "exited"
    /\ gen > 0
    /\ last.size = 8
    /\ alloc(heap_cursor, heap_end, last.size, last.align, last.offset).ok

(* -------------------------------- C15 ---------------------------------- *)
\* C15: once gc_init has returned, no alloc, mmtk_malloc, mmtk_free or
\* bind_mutator call changes heap_start or heap_end, and the cursor changes
\* only in a successful alloc or mmtk_malloc.
C15_OnlyCursorMoves ==
    [][(gen > 0 /\ ncalls' # ncalls
          /\ last'.op \in {"alloc", "mmtk_malloc", "mmtk_free", "bind_mutator"}) =>
          /\ heap_start' = heap_start
          /\ heap_end' = heap_end
          /\ (heap_cursor' # heap_cursor) =>
                (last'.op \in {"alloc", "mmtk_malloc"} /\ last'.ok)]_vars

\* an alloc failed on a partly used Region and the cursor stayed where it was
C15_Witness ==
    /\ last.op = "alloc"
    /\ ~last.ok
    /\ pc = "running"
    /\ gen > 0
    /\ heap_cursor = last.pre
    /\ heap_cursor > heap_start
    /\ heap_cursor <= heap_end

(* -------------------------------- C16 ---------------------------------- *)
\* C16: in both allocators every successful alloc(size, align, offset) returns
\* a pointer p with (p + offset) mod align = 0.
C16_OffsetAlignedEverywhere ==
    (GoodRegion /\ AllocReturned /\ last.ok) =>
        (last.ret + ToSigned(last.offset)) % last.align = 0

(* -------------------------------- C17 ---------------------------------- *)
\* C17: for every address c and power-of-two align, the call
\* align_allocation(c, align, 0) yields align_up(c, align), bit for bit.
C17_ZeroOffsetIsAlignUp ==
    (last.op = "align_allocation" /\ last.offset = 0) =>
        /\ last.ok
        /\ last.ret = align_up(last.pre, last.align)

(* -------------------------------- C20 ---------------------------------- *)
\* C20: every successful alloc after gc_init returns a pointer p whose range
\* lies inside the Region: heap_start <= p and p + size <= heap_end.
C20_AllocationInsideRegion ==
    (GoodRegion /\ AllocReturned /\ last.ok) =>
        /\ heap_start <= last.ret
        /\ last.ret + last.size <= heap_end

\* ---------------------------------------------------------------------
\* Concurrent callers of alloc.  alloc reads the shared heap_cursor
\* (align_allocation(heap_cursor, ...)), compares against heap_end and
\* stores heap_cursor = new_cursor, with no lock and no atomic access:
\* between one caller's read and its store another caller may run.
\* Each caller makes one call; a caller is at
\*   "idle"     before the call
\*   "read"     in alloc, before reading heap_cursor
\*   "computed" result and new_cursor computed from the cursor it saw
\*   "commit"   past the heap_end check, before the store
\*   "done"     returned
Threads == 1 .. NThreads

ThreadSizes == {0, 8, Word - 8}
ThreadOffsets == {0, ToWord(0 - 4)}
ThreadCapacities == {16, 20}

IdleThread == [pc |-> "idle", size |-> 0, align |-> 1, offset |-> 0,
               seen |-> 0, retries |-> 0, ret |-> 0, ok |-> FALSE]

\* the Region as gc_init leaves it, and mode the discipline around alloc:
\* "racy" is the source as written
InitThreads(mode) ==
    /\ variant \in Variants
    /\ pc = "running"
    /\ \E cap \in ThreadCapacities :
         /\ alloced = SPACE_ALIGN + 4096
         /\ reserved = ToWord(cap + SPACE_ALIGN)
         /\ heap_start = align_up(alloced, SPACE_ALIGN)
         /\ heap_end = ToWord(heap_start + cap)
         /\ heap_cursor = heap_start
         /\ last = [NoCall EXCEPT !.op = "gc_init", !.size = cap, !.ok = TRUE]
    /\ gen = 1
    /\ ncalls = 1
    /\ allocs = {}
    /\ mut = [mode |-> mode, lock |-> 0, th |-> [t \in Threads |-> IdleThread]]
    /\ live = {[base |-> alloced, len |-> reserved]}

\* result and new_cursor of the variant's alloc from the cursor value seen
AllocOf(seen, size, align, offset) ==
    IF variant = "reference"
    THEN alloc(seen, heap_end, size, align, offset)
    ELSE bench_alloc(seen, heap_end, size, align, offset)

Unlocked(t) == IF mut.lock = t THEN 0 ELSE mut.lock

\* a caller enters alloc(handle, size, align, offset, allocator)
Begin(t) ==
    /\ mut.th[t].pc = "idle"
    /\ \E size \in ThreadSizes, align \in Aligns, offset \in ThreadOffsets :
         mut' = [mut EXCEPT !.th[t] = [@ EXCEPT !.pc = "read", !.size = size,
                                          !.align = align, !.offset = offset]]
    /\ UNCHANGED <<variant, pc, region, alloced, reserved, live, gen, ncalls,
                   last, allocs>>

\* the read of IMMORTAL_SPACE.heap_cursor in the first statement of alloc
Read(t) ==
    /\ mut.mode # "mutex"
    /\ mut.th[t].pc = "read"
    /\ mut' = [mut EXCEPT !.th[t] = [@ EXCEPT !.pc = "computed",
                                        !.seen = heap_cursor]]
    /\ UNCHANGED <<variant, pc, region, alloced, reserved, live, gen, ncalls,
                   last, allocs>>

\* the same read under a lock held around the whole of alloc
MutexRead(t) ==
    /\ mut.mode = "mutex"
    /\ mut.th[t].pc = "read"
    /\ mut.lock = 0
    /\ mut' = [mut EXCEPT !.lock = t,
                          !.th[t] = [@ EXCEPT !.pc = "computed",
                                        !.seen = heap_cursor]]
    /\ UNCHANGED <<variant, pc, region, alloced, reserved, live, gen, ncalls,
                   last, allocs>>

\* if (new_cursor > heap_end) return NULL
Check(t) ==
    /\ mut.th[t].pc = "computed"
    /\ LET me == mut.th[t]
           r == AllocOf(me.seen, me.size, me.align, me.offset)
       IN IF r.ok
          THEN /\ mut' = [mut EXCEPT !.th[t] = [@ EXCEPT !.pc = "commit"]]
               /\ UNCHANGED <<ncalls, last>>
          ELSE /\ mut' = [mut EXCEPT !.lock = Unlocked(t),
                                     !.th[t] = [@ EXCEPT !.pc = "done",
                                                   !.ret = NULL, !.ok = FALSE]]
               /\ ncalls' = ncalls + 1
               /\ last' = [op |-> "alloc", size |-> me.size, align |-> me.align,
                           offset |-> me.offset, pre |-> me.seen,
                           ret |-> NULL, ok |-> FALSE]
    /\ UNCHANGED <<variant, pc, region, alloced, reserved, live, gen, allocs>>

\* the effect of a caller's store of new_cursor and its return of result
Commit(t) ==
    LET me == mut.th[t]
        r == AllocOf(me.seen, me.size, me.align, me.offset)
    IN /\ heap_cursor' = r.cursor
       /\ mut' = [mut EXCEPT !.lock = Unlocked(t),
                             !.th[t] = [@ EXCEPT !.pc = "done", !.ret = r.ret,
                                           !.ok = TRUE]]
       /\ ncalls' = ncalls + 1
       /\ last' = [op |-> "alloc", size |-> me.size, align |-> me.align,
                   offset |-> me.offset, pre |-> me.seen,
                   ret |-> r.ret, ok |-> TRUE]
       /\ allocs' = allocs \cup {[p |-> r.ret, size |-> me.size, gen |-> gen,
                                    id |-> t]}
       /\ UNCHANGED <<variant, pc, heap_start, heap_end, alloced, reserved, live,
                      gen>>

\* IMMORTAL_SPACE.heap_cursor = new_cursor; return result
Write(t) ==
    /\ mut.mode # "cas"
    /\ mut.th[t].pc = "commit"
    /\ Commit(t)

\* the store as a compare-and-swap against the cursor value read: on a
\* mismatch nothing is written and the caller starts over from the read
CasCommit(t) ==
    /\ mut.mode = "cas"
    /\ mut.th[t].pc = "commit"
    /\ IF heap_cursor = mut.th[t].seen
       THEN Commit(t)
       ELSE /\ mut' = [mut EXCEPT !.th[t] = [@ EXCEPT !.pc = "read",
                                                !.retries = @ + 1]]
            /\ UNCHANGED <<variant, pc, region, alloced, reserved, live, gen,
                           ncalls, last, allocs>>

\* the source as written, called from several threads
InitRace == InitThreads("racy")

NextRace == \E t \in Threads : Begin(t) \/ Read(t) \/ Check(t) \/ Write(t)

SpecRace == InitRace /\ [][NextRace]_vars

\* alloc executed atomically, by a lock or by a compare-and-swap retry loop
InitAtomic == \E mode \in {"mutex", "cas"} : InitThreads(mode)

NextAtomic ==
    \E t \in Threads :
        \/ Begin(t)
        \/ Read(t)
        \/ MutexRead(t)
        \/ Check(t)
        \/ Write(t)
        \/ CasCommit(t)

SpecAtomic == InitAtomic /\ [][NextAtomic]_vars

\* caller t's call has returned a pointer
Returned(t) == mut.th[t].pc = "done" /\ mut.th[t].ok
\* the allocation caller t was handed
Got(t) == [p |-> mut.th[t].ret, size |-> mut.th[t].size]

(* -------------------------------- C18 ---------------------------------- *)
\* C18: alloc reads heap_cursor and later writes it as separate unsynchronised
\* steps.  Two callers that computed from the same cursor value and both
\* succeed are handed the candidate aligned from that one value: with the same
\* align and offset it is the same address, and their non-empty ranges
\* overlap.  Every store overwrites the cursor with the storing caller's own
\* candidate + size, computed from the value it read, so the advance another
\* caller committed in between is lost.  (The state in which this has
\* happened is C18_Witness.)
C18_RacyCallersShareAddress ==
    /\ \A t \in Threads, u \in Threads :
         (t # u /\ Returned(t) /\ Returned(u)
            /\ mut.th[t].seen = mut.th[u].seen
            /\ mut.th[t].align = mut.th[u].align
            /\ mut.th[t].offset = mut.th[u].offset) =>
              /\ mut.th[t].ret = mut.th[u].ret
              /\ mut.th[t].ret =
                   Candidate(mut.th[t].seen, mut.th[t].align, mut.th[t].offset)
              /\ (mut.th[t].size > 0 /\ mut.th[u].size > 0) =>
                   Overlap(Got(t), Got(u))
    /\ (last.op = "alloc" /\ last.ok) =>
         heap_cursor =
           ToWord(Candidate(last.pre, last.align, last.offset) + last.size)

\* both callers read the cursor at heap_start before either wrote it, both
\* succeeded with the same address and overlapping 8-byte ranges, and the
\* cursor has advanced by one request only
C18_Witness ==
    /\ mut # <<>>
    /\ mut.mode = "racy"
    /\ \E t \in Threads, u \in Threads :
         /\ t # u
         /\ Returned(t) /\ Returned(u)
         /\ mut.th[t].seen = heap_start /\ mut.th[u].seen = heap_start
         /\ mut.th[t].size = 8 /\ mut.th[u].size = 8
         /\ mut.th[t].ret = mut.th[u].ret
         /\ Overlap(Got(t), Got(u))
         /\ heap_cursor = mut.th[t].ret + 8
         /\ heap_cursor - heap_start < mut.th[t].size + mut.th[u].size

(* -------------------------------- C19 ---------------------------------- *)
\* the orders in which the callers' calls could run one after another
Orders == {o \in [Threads -> Threads] : \A i \in Threads, j \in Threads :
                                            o[i] = o[j] => i = j}

\* running the calls one at a time in this order from cursor cur gives every
\* caller the result it got and leaves the cursor where it is now
RECURSIVE SeqMatches(_, _, _)
SeqMatches(order, k, cur) ==
    IF k > NThreads THEN cur = heap_cursor
    ELSE LET me == mut.th[order[k]]
             r == AllocOf(cur, me.size, me.align, me.offset)
         IN /\ r.ok = me.ok
            /\ r.ret = me.ret
            /\ SeqMatches(order, k + 1, r.cursor)

C19_Disjoint ==
    \A t \in Threads, u \in Threads :
        (t # u /\ Returned(t) /\ Returned(u)) => ~Overlap(Got(t), Got(u))

C19_CursorInRegion == heap_start <= heap_cursor /\ heap_cursor <= heap_end

C19_Linearizable ==
    (\A t \in Threads : mut.th[t].pc = "done") =>
        \E order \in Orders : SeqMatches(order, 1, heap_start)

C19_RetryOnlyAfterCommit ==
    \A t \in Threads :
        mut.th[t].retries <= Cardinality({u \in Threads \ {t} : Returned(u)})

\* C19: with alloc's read / compute / commit executed atomically (under one
\* lock, or as a compare-and-swap on the cursor retried on conflict), under
\* every interleaving of the callers: successful allocations are pairwise
\* disjoint, heap_start <= heap_cursor <= heap_end, the results are those of
\* some sequential order of the same calls, and a caller retries only because
\* another caller's commit succeeded.
C19_AtomicAllocIsSafe ==
    /\ C19_Disjoint
    /\ C19_CursorInRegion
    /\ C19_Linearizable
    /\ C19_RetryOnlyAfterCommit

\* ---------------------------------------------------------------------
\* the first granted gc_init of a process, over the base addresses a
\* reservation can have: aligned, one
\* byte past a boundary (the longest rounding), mid-quantum, one byte
\* before a boundary, in the lowest, the middle and the highest alignment
\* quanta of the address space
BootQuanta ==
    LET n == Word \div SPACE_ALIGN
    IN {0, 1, n \div 2, n - 2, n - 1}

BootBases(len) ==
    {b \in {q * SPACE_ALIGN + d : q \in BootQuanta,
                                  d \in {0, 1, 4096, SPACE_ALIGN - 1}} :
        b # NULL /\ b + len <= Word}

BootCapacities == {0, 16, SPACE_ALIGN + 20, Word - 1}

BootRef ==
    /\ CanCall
    /\ live = {}
    /\ variant = "reference"
    /\ \E heap_size \in BootCapacities :
         LET len == ToWord(heap_size + SPACE_ALIGN)
         IN \E a \in {MAP_FAILED} \cup (IF len = 0 THEN {} ELSE BootBases(len)) :
              GcInitBody(heap_size, len, a)
    /\ ncalls' = ncalls + 1
    /\ UNCHANGED <<variant, allocs, mut>>

BootBench ==
    /\ CanCall
    /\ live = {}
    /\ variant = "bench"
    /\ \E heap_size \in BootCapacities :
         LET len == ToWord(heap_size + SPACE_ALIGN)
         IN \E a \in {NULL} \cup BootBases(len) :
              GcInitBody(heap_size, len, a)
    /\ ncalls' = ncalls + 1
    /\ UNCHANGED <<variant, allocs, mut>>

NextBoot == BootRef \/ BootBench

SpecBoot == Init /\ [][NextBoot]_vars

(* -------------------------------- C21 ---------------------------------- *)
\* C21: after a successful gc_init(capacity) whose reservation of
\* capacity + 2^19 bytes starts at base b, the Region [heap_start, heap_end)
\* lies inside the reserved block [b, b + capacity + 2^19), for every base b.
C21_SlackSuffices ==
    (last.op = "gc_init" /\ last.ok /\ alloced # MAP_FAILED
       /\ reserved = last.size + SPACE_ALIGN) =>
        /\ alloced <= heap_start
        /\ heap_start <= heap_end
        /\ heap_end <= alloced + last.size + SPACE_ALIGN

\* the longest rounding: the base is one byte past a boundary, the Region
\* starts 2^19 - 1 bytes into the block and ends one byte before its end
C21_Witness ==
    /\ last.op = "gc_init" /\ last.ok /\ alloced # MAP_FAILED
    /\ reserved = last.size + SPACE_ALIGN
    /\ last.size > 0
    /\ alloced % SPACE_ALIGN = 1
    /\ heap_start = alloced + SPACE_ALIGN - 1
    /\ heap_end = alloced + reserved - 1

(* -------------------------------- C22 ---------------------------------- *)
\* C22: after gc_init has returned, no successful alloc or mmtk_malloc
\* returns the null pointer, for any size, align and offset.
C22_NullMeansExhausted ==
    (gen > 0 /\ AllocReturned /\ last.ok) => last.ret # NULL

\* ---------------------------------------------------------------------
\* allocation requests on the Region as the loader leaves it (static
\* storage, all zero), before any gc_init; the sizes include those for
\* which result + size comes back to 0
UnbootedSizes == {0, 8, Word - 12, Word - 8}

UnbootedAllocRef ==
    /\ CanCall
    /\ variant = "reference"
    /\ \E size \in UnbootedSizes, align \in Aligns, offset \in Offsets :
         LET r == alloc(heap_cursor, heap_end, size, align, offset)
         IN Record("alloc", size, align, offset, r)

UnbootedAllocBench ==
    /\ CanCall
    /\ variant = "bench"
    /\ \E size \in UnbootedSizes, align \in Aligns, offset \in Offsets :
         LET r == bench_alloc(heap_cursor, heap_end, size, align, offset)
         IN Record("alloc", size, align, offset, r)

UnbootedMmtkMalloc ==
    /\ CanCall
    /\ variant = "reference"
    /\ \E size \in UnbootedSizes :
         LET r == mmtk_malloc(heap_cursor, heap_end, size)
         IN Record("mmtk_malloc", size, 1, 0, r)

NextUnbooted == UnbootedAllocRef \/ UnbootedAllocBench \/ UnbootedMmtkMalloc

SpecUnbooted == Init /\ [][NextUnbooted]_vars

(* -------------------------------- C23 ---------------------------------- *)
\* C23: before any gc_init call the Region is all zero, every alloc and
\* mmtk_malloc call returns null and leaves the Region unchanged, and no
\* non-null pointer has been handed out.
C23_NothingBeforeBootstrap ==
    gen = 0 =>
        /\ heap_start = 0 /\ heap_end = 0 /\ heap_cursor = 0
        /\ AllocReturned => last.ret = NULL
        /\ \A a \in allocs : a.p = NULL

(* -------------------------------- C24 ---------------------------------- *)
\* C24: a second gc_init on an already bootstrapped Region does not change
\* heap_start or heap_end and does not move heap_cursor backwards.
C24_BootstrapOnce ==
    [][(GoodRegion /\ ncalls' # ncalls /\ last'.op = "gc_init"
          /\ pc' = "running") =>
          /\ heap_start' = heap_start
          /\ heap_end' = heap_end
          /\ heap_cursor' >= heap_cursor]_vars

====
